---------------------------- MODULE Spec2Model ----------------------------
(***************************************************************************)
(* ZstdWrapper (src/src/lib.rs): a dictionary-seeded streaming compressor  *)
(* with one reusable output buffer.                                         *)
(*                                                                          *)
(* The wrapper's four operations are modelled step by step (begin, create   *)
(* the codec, copy, finish, return).  The zstd codec itself is a library;   *)
(* it is modelled by a small frame format that keeps the structure of a     *)
(* zstd frame (magic, dictionary id, a sequence of blocks, each with a      *)
(* header  last + 2*type + 8*size, block types raw / RLE / compressed /     *)
(* reserved, no content checksum), and by the documented behaviour of the   *)
(* zstd streaming reader: frames are decoded one after another until the    *)
(* input ends, and an input that ends inside a frame is an error.           *)
(***************************************************************************)
EXTENDS Integers, Sequences, FiniteSets, TLC

\* ------------------------------------------------------------------ bounds

\* Longest plaintext handed to compress / compress_owned.
MaxLen == 2

\* Largest block of a frame (zstd: 128 KiB), scaled down.
MaxBlock == 1

\* Byte values of plaintexts.
Data == {0, 1}

\* Bits a corruption may flip in one byte of a frame (bit 0 or bit 1).
FlipMasks == {1, 2}

\* ------------------------------------------------------- sequences of bytes

Min(S) == CHOOSE m \in S : \A n \in S : m <= n

Max2(a, b) == IF a >= b THEN a ELSE b

SeqsUpTo(S, n) == UNION {[1..k -> S] : k \in 0..n}

RECURSIVE Repeat(_, _)
Repeat(b, n) == IF n = 0 THEN <<>> ELSE <<b>> \o Repeat(b, n - 1)

RECURSIVE Flatten(_)
Flatten(chunks) ==
    IF chunks = <<>> THEN <<>> ELSE Head(chunks) \o Flatten(Tail(chunks))

\* One bit of a byte flipped (m is the bit's weight).
Flip(b, m) == IF (b \div m) % 2 = 1 THEN b - m ELSE b + m

Plain == SeqsUpTo(Data, MaxLen)

LongPlain == [1..MaxLen -> Data]

\* ----------------------------------------------------------- the dictionary

\* include_bytes!("../dictionary"): the raw dictionary, its id and content.
EmbeddedDictionary == [id |-> 6, content |-> <<0, 1, 1>>]

\* zstd::DEFAULT_COMPRESSION_LEVEL
DEFAULT_COMPRESSION_LEVEL == 3

Levels == {1, DEFAULT_COMPRESSION_LEVEL}

\* DecoderDictionary::copy(raw): level-independent.
DecoderDictionary(raw) == [id |-> raw.id, content |-> raw.content]

\* EncoderDictionary::copy(raw, level).
EncoderDictionary(raw, level) ==
    [id |-> raw.id, content |-> raw.content, level |-> level]

\* ------------------------------------------------------------ the encoder

\* First byte of the zstd frame magic 0xFD2FB528 (little endian).
Magic == 40

Raw == 0
Rle == 1
Compressed == 2
Reserved == 3

BlockHeader(last, type, size) == last + 2 * type + 8 * size

\* Offsets of the dictionary the match finder tries: a lower level searches less.
SearchOffsets(cd) ==
    IF cd.level >= DEFAULT_COMPRESSION_LEVEL
    THEN 0..(Len(cd.content) - 1)
    ELSE {0}

IsRun(b) == \A i \in 1..Len(b) : b[i] = b[1]

\* One block: a dictionary match, a run, or the bytes as they are.
EncodeBlock(cd, b, last) ==
    LET n == Len(b)
        offs == {o \in SearchOffsets(cd) :
                    /\ o + n <= Len(cd.content)
                    /\ SubSeq(cd.content, o + 1, o + n) = b}
    IN  IF n >= 1 /\ offs # {}
        THEN <<BlockHeader(last, Compressed, n), Min(offs)>>
        ELSE IF n >= 2 /\ IsRun(b)
        THEN <<BlockHeader(last, Rle, n), b[1]>>
        ELSE <<BlockHeader(last, Raw, n)>> \o b

RECURSIVE EncodeBlocks(_, _)
EncodeBlocks(cd, x) ==
    IF Len(x) <= MaxBlock
    THEN <<EncodeBlock(cd, x, 1)>>
    ELSE <<EncodeBlock(cd, SubSeq(x, 1, MaxBlock), 0)>>
         \o EncodeBlocks(cd, SubSeq(x, MaxBlock + 1, Len(x)))

\* What the encoder hands to its writer, write by write: the frame header, then
\* the blocks; the last block closes the frame.
EncodeChunks(cd, x) == <<(<<Magic, cd.id>>)>> \o EncodeBlocks(cd, x)

\* ------------------------------------------------------------ the decoder

DecErr(acc) == [ok |-> FALSE, chunks |-> acc]

\* A decoder told to stop after the first frame.
single_frame_set == TRUE

\* Decoder::single_frame() is never called: the reader goes on to the next frame.
single_frame == FALSE

\* The streaming reader: frame after frame until the input ends (the wrapper
\* never asks for single_frame); fin says whether a frame has just ended.
RECURSIVE DecodeFrames(_, _, _, _, _), DecodeBlocks(_, _, _, _)
DecodeFrames(dd, y, i, fin, acc) ==
    IF i > Len(y)
    THEN IF fin
         THEN [ok |-> TRUE, chunks |-> acc]
         ELSE DecErr(acc)
    ELSE IF fin /\ single_frame
    THEN [ok |-> TRUE, chunks |-> acc]
    ELSE IF y[i] # Magic THEN DecErr(acc)
    ELSE IF i + 1 > Len(y) THEN DecErr(acc)
    ELSE IF y[i + 1] # dd.id THEN DecErr(acc)
    ELSE DecodeBlocks(dd, y, i + 2, acc)

DecodeBlocks(dd, y, i, acc) ==
    IF i > Len(y) THEN DecErr(acc)
    ELSE
    LET h == y[i]
        last == h % 2
        type == (h \div 2) % 4
        size == h \div 8
        need == IF type = Raw THEN size ELSE IF type = Reserved THEN 0 ELSE 1
        bad ==
            \/ type = Reserved
            \/ size > MaxBlock
            \/ i + need > Len(y)
            \/ type = Compressed /\ y[i + 1] + size > Len(dd.content)
        chunk ==
            IF type = Raw THEN SubSeq(y, i + 1, i + size)
            ELSE IF type = Rle THEN Repeat(y[i + 1], size)
            ELSE SubSeq(dd.content, y[i + 1] + 1, y[i + 1] + size)
    IN  IF bad THEN DecErr(acc)
        ELSE IF last = 1
        THEN DecodeFrames(dd, y, i + 1 + need, TRUE, Append(acc, chunk))
        ELSE DecodeBlocks(dd, y, i + 1 + need, Append(acc, chunk))

\* What the decoder yields read by read, and how the stream ends.
DecodeStream(dd, y) == DecodeFrames(dd, y, 1, FALSE, <<>>)


\* ---------------------------------------------------- std::io::Cursor, Vec

\* A cursor that starts where the vector ends.
CursorAtEnd(vec) == Len(vec)

\* io::Cursor::new(&mut vec): the position a new cursor starts at.
CursorNew(vec) == 0

\* <Vec<u8> as Write>::write: appends, whatever the position.
VecAppend(vec, pos, chunk) == vec \o chunk

\* Cursor<&mut Vec<u8>>::write at position pos: overwrites what is there and
\* extends the vector when the chunk runs past its end; never shortens it.
CursorWrite(vec, pos, chunk) ==
    LET padded == IF pos > Len(vec) THEN vec \o Repeat(0, pos - Len(vec)) ELSE vec
    IN  SubSeq(padded, 1, pos) \o chunk
        \o SubSeq(padded, pos + Len(chunk) + 1, Len(padded))

\* A truncate that leaves the vector as it is.
TruncateNothing(vec, n) == vec

\* Vec::truncate(n)
Truncate(vec, n) == IF n < Len(vec) THEN SubSeq(vec, 1, n) ELSE vec

\* &vec[..]: the whole vector, not the range.
WholeVec(vec, lo, hi) == vec

\* &vec[lo..hi]
Slice(vec, lo, hi) == SubSeq(vec, lo + 1, hi)

\* ------------------------------------------------------------ the wrapper

Threads == {1, 2}

BufferOps == {"compress", "decompress"}
OwnedOps == {"compress_owned", "decompress_owned"}
CompressOps == {"compress", "compress_owned"}
DecompressOps == {"decompress", "decompress_owned"}

VARIABLES
    c_dict,     \* ZstdWrapper.c_dict
    d_dict,     \* ZstdWrapper.d_dict
    buffer,     \* ZstdWrapper.buffer
    call,       \* per thread: the call it is in, and where in it
    saved,      \* the caller's copy (to_vec) of the last compressed result
    failed      \* whether the last buffer-reusing call on this wrapper failed

vars == <<c_dict, d_dict, buffer, call, saved, failed>>

NoResult == [ok |-> FALSE, bytes |-> <<>>, lo |-> 0, hi |-> 0, err |-> "none"]

NoOrigin == [kind |-> "none", plain |-> <<>>, level |-> 0, mode |-> "none"]

\* A call: where it is (pc), its operation and input, its output cursor
\* (out_pos), its own vector (out_buffer, owned operations), the writes the
\* codec has still to make (todo) and how its stream ends (final), its result
\* (res).  Kept beside these for the properties: where the input came from
\* (origin), the bytes written so far (written), the buffer as the call found
\* it (pre), and whether the call before it on the buffer failed (after).
Idle ==
    [pc |-> "idle", op |-> "none", arg |-> <<>>, origin |-> NoOrigin,
     out_pos |-> 0, out_buffer |-> <<>>, todo |-> <<>>, final |-> TRUE,
     written |-> 0, pre |-> <<>>, after |-> FALSE, res |-> NoResult]

NoSaved == [bytes |-> <<>>, plain |-> <<>>, level |-> 0, mode |-> "none"]

\* Another dictionary: what a frame of another build would be made with.
OtherDictionary == [id |-> 7, content |-> <<1, 0, 0>>]

\* A decoder projection made from another blob than the encoder's.
WithLevelDecoderOther(level) == DecoderDictionary(OtherDictionary)

\* ZstdWrapper::with_level(level): both projections come from the one blob.
WithLevelEncoder(level) == EncoderDictionary(EmbeddedDictionary, level)

WithLevelDecoder(level) == DecoderDictionary(EmbeddedDictionary)

Init ==
    /\ \E level \in Levels :
        /\ c_dict = WithLevelEncoder(level)
        /\ d_dict = WithLevelDecoder(level)
    /\ buffer = <<>>
    /\ call = [t \in Threads |-> Idle]
    /\ saved = NoSaved
    /\ failed = FALSE

\* Dropping the wrapper and building another one (with_level / new); what the
\* caller copied out of the old one stays with the caller.
Construct(level) ==
    /\ \A t \in Threads : call[t].pc = "idle"
    /\ c_dict' = WithLevelEncoder(level)
    /\ d_dict' = WithLevelDecoder(level)
    /\ buffer' = <<>>
    /\ failed' = FALSE
    /\ UNCHANGED <<call, saved>>

\* Every operation writing into the wrapper's buffer.
DestShared(op) == "buffer"

\* Where an operation writes: the wrapper's buffer, or a Vec of its own.
Dest(op) == IF op \in BufferOps THEN "buffer" ELSE "out_buffer"

\* Both operations clearing the buffer first.
PrologueClears(op, vec) == Truncate(vec, 0)

\* The buffer as the operation leaves it before its cursor is made:
\* decompress truncates it, compress does not touch it.
Prologue(op, vec) == IF op = "decompress" THEN Truncate(vec, 0) ELSE vec

\* &mut self: no other call on the wrapper is in flight, and none may start
\* while the returned view lives.  &self: no &mut self call is in flight.
MayBegin(t, op) ==
    /\ call[t].pc = "idle"
    /\ IF op \in BufferOps
       THEN \A u \in Threads : call[u].pc = "idle"
       ELSE \A u \in Threads : call[u].pc # "idle" => call[u].op \in OwnedOps

\* The head of each operation: decompress truncates the buffer; the output
\* cursor is made over the buffer or over a new Vec (Vec::with_capacity: the
\* capacity is a hint and changes no content).
Begin(t, op, arg, origin) ==
    /\ MayBegin(t, op)
    /\ buffer' = IF Dest(op) = "buffer" THEN Prologue(op, buffer) ELSE buffer
    /\ call' = [call EXCEPT ![t] =
            [Idle EXCEPT !.pc = "create", !.op = op, !.arg = arg,
                         !.origin = origin,
                         !.out_pos = IF Dest(op) = "buffer"
                                 THEN CursorNew(Prologue(op, buffer))
                                 ELSE CursorNew(<<>>),
                         !.pre = IF Dest(op) = "buffer" THEN buffer ELSE <<>>,
                         !.after = IF Dest(op) = "buffer" THEN failed ELSE FALSE]]
    /\ UNCHANGED <<c_dict, d_dict, saved, failed>>

\* Ok(&self.buffer[0..out_pos]) / Ok(out_buffer)
Succeeded(op, vec, pos) ==
    IF Dest(op) = "buffer"
    THEN [ok |-> TRUE, bytes |-> Slice(vec, 0, pos), lo |-> 0, hi |-> pos,
          err |-> "none"]
    ELSE [ok |-> TRUE, bytes |-> vec, lo |-> 0, hi |-> Len(vec), err |-> "none"]

\* A failure answered with the caller's input, uncompressed.
FallBackToInput(c, stage) ==
    [ok |-> TRUE, bytes |-> c.arg, lo |-> 0, hi |-> Len(c.arg), err |-> stage]

\* The ? after each codec call: the error goes to the caller, nothing else does.
Failed(c, stage) ==
    [ok |-> FALSE, bytes |-> <<>>, lo |-> 0, hi |-> 0, err |-> stage]

\* The vector the call writes into.
Target(c) == IF Dest(c.op) = "buffer" THEN buffer ELSE c.out_buffer

\* The call's record and the buffer after one chunk went through the cursor.
Written(c, chunk) ==
    [c EXCEPT !.out_pos = c.out_pos + Len(chunk),
              !.written = c.written + Len(chunk),
              !.out_buffer = IF Dest(c.op) = "buffer" THEN c.out_buffer
                      ELSE CursorWrite(c.out_buffer, c.out_pos, chunk),
              !.todo = Tail(c.todo)]

BufferWritten(c, chunk) ==
    IF Dest(c.op) = "buffer" THEN CursorWrite(buffer, c.out_pos, chunk) ELSE buffer

\* The call is over: its result is fixed, the view (if any) is out.
Done(c, res) == [c EXCEPT !.pc = "done", !.res = res, !.todo = <<>>]

\* Encoder::with_prepared_dictionary / Decoder::with_prepared_dictionary.  The
\* decoder's run over the input is fixed by the input; when it yields nothing
\* io::copy ends at once.
Create(t) ==
    LET c == call[t]
        stream == DecodeStream(d_dict, c.arg)
    IN  /\ c.pc = "create"
        /\ call' = [call EXCEPT ![t] =
              IF c.op \in CompressOps
              THEN [c EXCEPT !.pc = "copy", !.todo = EncodeChunks(c_dict, c.arg)]
              ELSE IF stream.chunks = <<>>
              THEN Done(c, IF stream.ok
                           THEN Succeeded(c.op, Target(c), c.out_pos)
                           ELSE Failed(c, "decode"))
              ELSE [c EXCEPT !.pc = "copy", !.todo = stream.chunks,
                             !.final = stream.ok]]
        /\ UNCHANGED <<c_dict, d_dict, buffer, saved, failed>>

\* io::copy: one write through the output cursor.  Compressing, the block that
\* closes the frame is left to finish(); decompressing, the copy ends when the
\* decoder has no more, with Ok or with the decoder's error.
Copy(t) ==
    LET c == call[t]
        chunk == Head(c.todo)
        w == Written(c, chunk)
        b == BufferWritten(c, chunk)
    IN  /\ c.pc = "copy"
        /\ buffer' = b
        /\ call' = [call EXCEPT ![t] =
              IF c.op \in CompressOps
              THEN IF Len(w.todo) = 1 THEN [w EXCEPT !.pc = "finish"] ELSE w
              ELSE IF w.todo # <<>> THEN w
              ELSE Done(w, IF c.final
                           THEN Succeeded(c.op,
                                    IF Dest(c.op) = "buffer" THEN b ELSE w.out_buffer,
                                    w.out_pos)
                           ELSE Failed(c, "decode"))]
        /\ UNCHANGED <<c_dict, d_dict, saved, failed>>

\* A finish() that writes nothing: the frame is never closed.
FinishForgotten(todo) == <<>>

\* What encoder.finish() hands to the writer: the block that ends the frame.
FinishWrites(todo) == Head(todo)

\* encoder.finish(), then the position is read and the result returned.
Finish(t) ==
    LET c == call[t]
        chunk == FinishWrites(c.todo)
        w == Written(c, chunk)
        b == BufferWritten(c, chunk)
    IN  /\ c.pc = "finish"
        /\ buffer' = b
        /\ call' = [call EXCEPT ![t] =
              Done(w, Succeeded(c.op,
                          IF Dest(c.op) = "buffer" THEN b ELSE w.out_buffer, w.out_pos))]
        /\ UNCHANGED <<c_dict, d_dict, saved, failed>>

\* The codec fails while compressing (creating the encoder, copying, finishing).
CodecFault(t) ==
    LET c == call[t]
    IN  /\ c.pc \in {"create", "copy", "finish"}
        /\ c.op \in CompressOps
        /\ call' = [call EXCEPT ![t] = Done(c, Failed(c, c.pc))]
        /\ UNCHANGED <<c_dict, d_dict, buffer, saved, failed>>

\* The caller is done with the result; a compressed one it keeps a copy of.
Return(t) ==
    LET c == call[t]
    IN  /\ c.pc = "done"
        /\ call' = [call EXCEPT ![t] = Idle]
        /\ saved' = IF c.op \in CompressOps /\ c.res.ok
                    THEN [bytes |-> c.res.bytes, plain |-> c.arg,
                          level |-> c.origin.level, mode |-> c.op]
                    ELSE saved
        /\ failed' = IF c.op \in BufferOps THEN ~c.res.ok ELSE failed
        /\ UNCHANGED <<c_dict, d_dict, buffer>>

\* ------------------------------------------------------------- the callers

Frame(cd, x) == Flatten(EncodeChunks(cd, x))

\* What a caller may hand to decompress: the frame it kept, or that frame
\* cut short, twice in a row, with one bit flipped, or made with another
\* dictionary; or bytes that never were a frame.
DecInputs(s, kinds) ==
    LET n == Len(s.bytes)
        all ==
            {[kind |-> "exact", bytes |-> s.bytes]}
            \cup {[kind |-> "prefix", bytes |-> SubSeq(s.bytes, 1, k)] :
                    k \in 0..(n - 1)}
            \cup {[kind |-> "concat", bytes |-> s.bytes \o s.bytes]}
            \cup {[kind |-> "flip",
                   bytes |-> [s.bytes EXCEPT ![i] = Flip(@, m)]] :
                    i \in 1..n, m \in FlipMasks}
            \cup {[kind |-> "foreign",
                   bytes |-> Frame(EncoderDictionary(OtherDictionary, s.level),
                                   s.plain)]}
        garbage == {[kind |-> "garbage", bytes |-> g] : g \in Plain \ {<<>>}}
    IN  {d \in (IF s.mode = "none" THEN garbage ELSE all \cup garbage) :
            d.kind \in kinds}

BeginCompress(t, op, x) ==
    Begin(t, op, x,
          [kind |-> "plain", plain |-> x, level |-> c_dict.level, mode |-> op])

BeginDecompress(t, op, d) ==
    Begin(t, op, d.bytes,
          [kind |-> d.kind, plain |-> saved.plain, level |-> saved.level,
           mode |-> saved.mode])

AllKinds == {"exact", "prefix", "concat", "flip", "foreign", "garbage"}

\* One caller, one call at a time.
Main == 1

Step(t) ==
    \/ Create(t)
    \/ Copy(t)
    \/ Finish(t)
    \/ Return(t)

\* One caller using all four operations, feeding decompress what compress
\* returned or a cut of it; the codec may fail while compressing.
Next ==
    \/ \E level \in Levels : Construct(level)
    \/ \E op \in CompressOps, x \in Plain : BeginCompress(Main, op, x)
    \/ \E op \in DecompressOps, d \in DecInputs(saved, {"exact", "prefix"}) :
            BeginDecompress(Main, op, d)
    \/ Step(Main)
    \/ CodecFault(Main)

Spec == Init /\ [][Next]_vars

\* One caller handing decompress every kind of input.
NextForeign ==
    \/ \E x \in Plain : BeginCompress(Main, "compress", x)
    \/ \E op \in DecompressOps, d \in DecInputs(saved, AllKinds) :
            BeginDecompress(Main, op, d)
    \/ Step(Main)

SpecForeign == Init /\ [][NextForeign]_vars

\* Two callers sharing the wrapper: compress needs it alone, the owned
\* operations run side by side.
NextShared ==
    \E t \in Threads :
        \/ \E op \in CompressOps, x \in LongPlain : BeginCompress(t, op, x)
        \/ \E d \in DecInputs(saved, {"exact"}) :
                BeginDecompress(t, "decompress_owned", d)
        \/ Step(t)

SpecShared == Init /\ [][NextShared]_vars

\* ------------------------------------------------------------- the claims

\* What a wrapper that has done nothing yet returns for compress(x): the
\* encoder's writes through a new cursor over an empty vector.
RECURSIVE WriteAll(_, _, _)
WriteAll(vec, pos, chunks) ==
    IF chunks = <<>> THEN SubSeq(vec, 1, pos)
    ELSE WriteAll(CursorWrite(vec, pos, Head(chunks)),
                  pos + Len(Head(chunks)), Tail(chunks))

FreshCompress(cd, x) == WriteAll(<<>>, 0, EncodeChunks(cd, x))

\* ... and for decompress(y).
FreshDecompress(dd, y) ==
    LET s == DecodeStream(dd, y)
    IN  [ok |-> s.ok, bytes |-> IF s.ok THEN Flatten(s.chunks) ELSE <<>>]

Outcome(c) == [ok |-> c.res.ok, bytes |-> c.res.bytes]

\* The calls that have just ended (their result is out, the caller holds it).
DoneCalls == {call[t] : t \in {u \in Threads : call[u].pc = "done"}}

\* The buffer-reusing calls that have their cursor and have written nothing yet.
Starting ==
    {call[t] : t \in {u \in Threads :
        /\ call[u].pc \in {"create", "copy"}
        /\ call[u].op \in BufferOps
        /\ call[u].written = 0}}

Faults == {"create", "copy", "finish"}

\* C1: round trip.  Decompressing, in either mode, exactly the bytes that
\* compress or compress_owned returned for x gives Ok(x), whatever state the
\* wrapper is in; the frame of the empty input gives Ok of the empty sequence.
C1_RoundTrip ==
    \A c \in DoneCalls :
        \A dec \in DecompressOps, enc \in CompressOps :
            (c.op = dec /\ c.origin.kind = "exact" /\ c.origin.mode = enc)
                => /\ c.res.ok
                   /\ c.res.bytes = c.origin.plain
                   /\ c.arg # <<>>

C1_Witness ==
    \E c \in DoneCalls :
        /\ c.op = "decompress" /\ c.origin.kind = "exact"
        /\ c.origin.mode = "compress_owned"
        /\ Len(c.origin.plain) = MaxLen
        /\ c.pre # <<>>
        /\ c.res.ok

\* C2: buffer-reuse isolation.  A successful compress returns the view
\* buffer[0 .. n] where n is the number of bytes the encoder wrote in this
\* call, and the view holds this call's frame and nothing of an earlier call,
\* however long the buffer was before.
C2_ViewIsThisCall ==
    \A c \in DoneCalls :
        (c.op = "compress" /\ c.res.ok)
            => /\ c.res.lo = 0
               /\ c.res.hi - c.res.lo = c.written
               /\ c.res.bytes = SubSeq(buffer, 1, c.written)
               /\ c.res.bytes = Frame(c_dict, c.arg)

C2_Witness ==
    \E c \in DoneCalls :
        /\ c.op = "compress" /\ c.res.ok
        /\ Len(c.pre) > c.written
        /\ SubSeq(c.pre, 1, c.written) # c.res.bytes

\* C3: history independence.  After any earlier calls, compress(x) returns the
\* bytes a new wrapper of the same level returns for x, and decompress(y)
\* returns what a new wrapper returns for y (the same bytes, or an error where
\* the new wrapper gives an error).
C3_HistoryIndependent ==
    \A c \in DoneCalls :
        /\ (c.op = "compress" /\ c.res.ok)
                => c.res.bytes = FreshCompress(c_dict, c.arg)
        /\ c.op = "decompress" => Outcome(c) = FreshDecompress(d_dict, c.arg)

C3_Witness ==
    \E c \in DoneCalls :
        /\ c.op = "decompress" /\ c.res.ok
        /\ c.res.bytes # <<>>
        /\ Len(c.pre) > Len(c.res.bytes)

\* C4 as claimed: decompressing anything that is not one complete frame made by
\* compress with the embedded dictionary is an error.
ValidFrames ==
    {Frame(EncoderDictionary(EmbeddedDictionary, l), x) : l \in Levels, x \in Plain}

C5_FaultIsError ==
    \A c \in DoneCalls :
        (c.op \in CompressOps /\ c.res.err \in Faults)
            => /\ ~c.res.ok
               /\ c.res.bytes = <<>>
               /\ c.res.hi = c.res.lo
               /\ c.written < Len(Frame(c_dict, c.arg))

C5_Witness ==
    \E c \in DoneCalls :
        /\ c.op = "compress" /\ c.res.err = "finish"
        /\ c.written > 0
        /\ ~c.res.ok

\* C6: owned calls running side by side on one wrapper each return what they
\* return alone, and no step taken while an owned call is in flight changes the
\* wrapper's buffer.
OwnedInFlight(cs) == \E t \in Threads : cs[t].op \in OwnedOps

C6_OwnedAlone ==
    \A c \in DoneCalls :
        /\ c.op = "compress_owned"
                => c.res.ok /\ c.res.bytes = FreshCompress(c_dict, c.arg)
        /\ c.op = "decompress_owned"
                => Outcome(c) = FreshDecompress(d_dict, c.arg)

C6_OwnedConcurrent ==
    /\ []C6_OwnedAlone
    /\ [][(OwnedInFlight(call) \/ OwnedInFlight(call')) => buffer' = buffer]_vars

C6_Witness ==
    /\ call[1].op = "compress_owned" /\ call[1].pc = "finish"
    /\ call[2].op = "decompress_owned" /\ call[2].pc = "copy"
    /\ call[2].written > 0
    /\ buffer # <<>>

\* C7 as claimed: the buffer is empty when a buffer-reusing operation starts
\* to write.
C7_EmptyAtStart == \A c \in Starting : Len(buffer) = 0

\* C7 as amended: when a buffer-reusing operation starts to write its cursor is
\* at 0; the buffer is empty then for decompress, and for compress it is as the
\* earlier calls left it.
C7_CursorAtStart ==
    \A c \in Starting :
        /\ c.out_pos = 0
        /\ c.op = "decompress" => Len(buffer) = 0
        /\ c.op = "compress" => buffer = c.pre

C7_Witness ==
    \E c \in Starting :
        /\ c.op = "compress" /\ c.pc = "copy"
        /\ Len(buffer) > 0

\* C8: decoding does not depend on the level.  Both projections of a wrapper
\* come from the one embedded dictionary, so a frame made at one level is
\* decompressed to its plaintext by a wrapper of any level.
C8_LevelAgnostic ==
    /\ d_dict = DecoderDictionary(EmbeddedDictionary)
    /\ c_dict.id = d_dict.id /\ c_dict.content = d_dict.content
    /\ \A c \in DoneCalls, l1 \in Levels, l2 \in Levels :
        (/\ c.op \in DecompressOps /\ c.origin.kind = "exact"
         /\ c.origin.level = l1 /\ c_dict.level = l2)
            => c.res.ok /\ c.res.bytes = c.origin.plain

C8_Witness ==
    \E c \in DoneCalls :
        /\ c.op \in DecompressOps /\ c.origin.kind = "exact"
        /\ c.origin.level # c_dict.level
        /\ c.arg # Frame(c_dict, c.origin.plain)
        /\ c.res.ok

\* C9: asymmetric clearing.  After a successful decompress the buffer is as
\* long as the view; after a successful compress that wrote n bytes the buffer
\* is max(length before, n) long and from index n on holds the bytes it held
\* before; the view never ends past the buffer.
C9_AsymmetricClearing ==
    \A c \in DoneCalls :
        /\ (c.op = "decompress" /\ c.res.ok)
                => Len(buffer) = c.res.hi - c.res.lo
        /\ (c.op = "compress" /\ c.res.ok)
                => /\ Len(buffer) = Max2(Len(c.pre), c.written)
                   /\ \A i \in (c.written + 1)..Len(buffer) : buffer[i] = c.pre[i]
        /\ (c.op \in BufferOps /\ c.res.ok) => c.res.hi <= Len(buffer)

C9_Witness ==
    \E c \in DoneCalls :
        /\ c.op = "compress" /\ c.res.ok
        /\ Len(buffer) > c.res.hi
        /\ Len(buffer) = Len(c.pre)

\* C10: after a failed compress or decompress, the next successful compress or
\* decompress on the wrapper returns what a new wrapper returns, with nothing of
\* what the failed call wrote.
C10_UsableAfterFailure ==
    \A c \in DoneCalls :
        (c.op \in BufferOps /\ c.after /\ c.res.ok)
            => c.res.bytes =
                IF c.op = "compress"
                THEN FreshCompress(c_dict, c.arg)
                ELSE FreshDecompress(d_dict, c.arg).bytes

C10_Witness ==
    \E c \in DoneCalls :
        /\ c.op \in BufferOps /\ c.after /\ c.res.ok
        /\ Len(c.pre) > c.res.hi

=============================================================================
